---- MODULE Spec2Model ----
(***************************************************************************)
(* The Spanish inverse-text-normalization decimal tagger                   *)
(* (inverse_text_normalization/es/taggers/decimal.py).                     *)
(*                                                                         *)
(* A transducer is modelled by the operator that applies it: T(w) is the   *)
(* set of output strings the transducer emits on the input w, empty when   *)
(* w is rejected.  An input is a sequence of tokens: spoken words and the  *)
(* whitespace character " ".  An output is a sequence of fragments: the    *)
(* literals the grammar inserts, one element per insert, and the digit     *)
(* characters and words it copies, one element each.                       *)
(***************************************************************************)
EXTENDS Integers, Sequences, FiniteSets, TLC

--------------------------------------------------------------------------
(* Bounds of the checked inputs. *)

\* longest whitespace run between two spoken words
MaxSpaces == 2

\* longest spoken digit sequence of a fractional part
MaxDigits == 3

--------------------------------------------------------------------------
(* The transducer algebra (pynini) as operators on inputs.  A               *)
(* concatenation A + B applied to w is the union, over every split of w    *)
(* into a part for A and a part for B, of the concatenated outputs.        *)

Pre(w, i) == SubSeq(w, 1, i)

Suf(w, i) == SubSeq(w, i + 1, Len(w))

Mid(w, i, j) == SubSeq(w, i + 1, j)

\* pynini.cross(word, s): consumes the word, emits s
Cross(word, s, w) == IF w = <<word>> THEN {<<s>>} ELSE {}

\* pynini.string_file(table): consumes a key of the table, emits its value
StringFile(table, w) ==
    IF Len(w) = 1 /\ w[1] \in DOMAIN table THEN {table[w[1]]} ELSE {}

\* an acceptor of a set of words copies the word it matches
Accept(words, w) == IF Len(w) = 1 /\ w[1] \in words THEN {w} ELSE {}

IsWhiteSpace(w) == \A i \in 1..Len(w) : w[i] = " "

--------------------------------------------------------------------------
(* Collaborators of the tagger: graph_utils, the lexicon tables and the    *)
(* cardinal grammar.                                                       *)

NEMO_DIGIT == {"0", "1", "2", "3", "4", "5", "6", "7", "8", "9"}

\* delete_space = pynutil.delete(pynini.closure(NEMO_WHITE_SPACE))
delete_space(w) == IF IsWhiteSpace(w) THEN {<<>>} ELSE {}

\* delete_extra_space = pynini.cross(pynini.closure(NEMO_WHITE_SPACE, 1), " ")
delete_extra_space(w) == IF w # <<>> /\ IsWhiteSpace(w) THEN {<<" ">>} ELSE {}

\* zero.tsv
ZeroTable == [t \in {"cero"} |-> <<"0">>]

\* digit.tsv (the entries the checked inputs use)
DigitTable == ("uno" :> <<"1">>) @@ ("dos" :> <<"2">>)

\* the words of an input, its whitespace removed
Words(w) == SelectSeq(w, LAMBDA t : t # " ")

Spoken(w) == w # <<>> /\ w[1] # " " /\ w[Len(w)] # " "

\* the cardinal grammar's phrases (the ones the checked inputs use)
CardinalTable ==
    (<<"uno">> :> <<"1">>) @@ (<<"dos">> :> <<"2">>) @@
    (<<"veinte">> :> <<"2", "0">>) @@
    (<<"dos", "millones">> :> <<"2", "0", "0", "0", "0", "0", "0">>)

\* cardinal.graph_no_exception: a whole number, its words separated by
\* deleted whitespace, to its digit string
graph_no_exception(w) ==
    IF Spoken(w) /\ Words(w) \in DOMAIN CardinalTable
    THEN {CardinalTable[Words(w)]} ELSE {}

HundredTable ==
    (<<"uno">> :> <<"0", "0", "1">>) @@ (<<"dos">> :> <<"0", "0", "2">>) @@
    (<<"veinte">> :> <<"0", "2", "0">>)

\* cardinal.graph_hundred_component_at_least_one_none_zero_digit: a number
\* 1..999 to its three-digit string
graph_hundred_component_at_least_one_none_zero_digit(w) ==
    IF Spoken(w) /\ Words(w) \in DOMAIN HundredTable
    THEN {HundredTable[Words(w)]} ELSE {}

--------------------------------------------------------------------------
(* DecimalFst.__init__: the decimal without sign *)

\* cardinal_graph = cardinal.graph_no_exception | string_file(es/zero.tsv);
\* the table is taken to be the zero table of line 92
cardinal_graph(w) == graph_no_exception(w) \cup StringFile(ZeroTable, w)

\* graph_decimal = string_file(digit.tsv) | string_file(zero.tsv)
graph_digit(w) == StringFile(DigitTable, w) \cup StringFile(ZeroTable, w)

\* the bug of delete_extra_space for delete_space: a space is emitted
graph_digit_extra_space(w) ==
    UNION { {d \o s : s \in delete_extra_space(Suf(w, i)),
                      d \in graph_digit(Pre(w, i))}
          : i \in 0..Len(w) }

\* graph_decimal + delete_space
graph_digit_space(w) ==
    UNION { {d \o s : s \in delete_space(Suf(w, i)), d \in graph_digit(Pre(w, i))}
          : i \in 0..Len(w) }

\* pynini.closure(graph_decimal + delete_space)
RECURSIVE closure_digit_space(_)
closure_digit_space(w) ==
    (IF w = <<>> THEN {<<>>} ELSE {}) \cup
    UNION { LET ds == graph_digit_space(Pre(w, i))
            IN  IF ds = {} THEN {}
                ELSE {d \o r : d \in ds, r \in closure_digit_space(Suf(w, i))}
          : i \in 1..Len(w) }

\* graph_decimal = pynini.closure(graph_decimal + delete_space) + graph_decimal
graph_digit_sequence(w) ==
    UNION { LET ds == graph_digit(Suf(w, i))
            IN  IF ds = {} THEN {}
                ELSE {c \o d : c \in closure_digit_space(Pre(w, i)), d \in ds}
          : i \in 0..Len(w) }

\* graph_decimal |= cardinal_graph; self.graph = graph_decimal
graph_decimal(w) == graph_digit_sequence(w) \cup cardinal_graph(w)

\* the bug of one value for both separator words
decimal_point_comma_only(w) ==
    Cross("coma", "morphosyntactic_features: \",\"", w) \cup
    Cross("punto", "morphosyntactic_features: \",\"", w)

decimal_point(w) ==
    Cross("coma", "morphosyntactic_features: \",\"", w) \cup
    Cross("punto", "morphosyntactic_features: \".\"", w)

\* insert("negative: ") + cross("menos", "\"true\"") + delete_extra_space
graph_negative(w) ==
    UNION { {<<"negative: ">> \o t \o s
               : t \in Cross("menos", "\"true\"", Pre(w, i)),
                 s \in delete_extra_space(Suf(w, i))}
          : i \in 0..Len(w) }

\* pynini.closure(..., 0, 1)
optional_graph_negative(w) ==
    (IF w = <<>> THEN {<<>>} ELSE {}) \cup graph_negative(w)

graph_fractional(w) ==
    {<<"fractional_part: \"">> \o d \o <<"\"">> : d \in graph_decimal(w)}

graph_integer(w) ==
    {<<"integer_part: \"">> \o c \o <<"\"">> : c \in cardinal_graph(w)}

\* the bug of delete_space for delete_extra_space: no space is emitted
graph_integer_delete_space(w) ==
    UNION { LET ss == delete_space(Suf(w, i))
            IN  IF ss = {} THEN {}
                ELSE {c \o s : c \in graph_integer(Pre(w, i)), s \in ss}
          : i \in 0..Len(w) }

\* graph_integer + delete_extra_space
graph_integer_space(w) ==
    UNION { LET ss == delete_extra_space(Suf(w, i))
            IN  IF ss = {} THEN {}
                ELSE {c \o s : c \in graph_integer(Pre(w, i)), s \in ss}
          : i \in 0..Len(w) }

\* pynini.closure(graph_integer + delete_extra_space, 0, 1)
optional_graph_integer(w) ==
    (IF w = <<>> THEN {<<>>} ELSE {}) \cup graph_integer_space(w)

\* the bug of an optional fraction: the separator word alone is accepted
graph_point_optional_fractional(w) ==
    decimal_point(w) \cup
    UNION { {p \o s \o f : p \in decimal_point(Pre(w, i)),
                           s \in delete_extra_space(Mid(w, i, j)),
                           f \in graph_fractional(Suf(w, j))}
          : <<i, j>> \in {x \in (0..Len(w)) \X (0..Len(w)) : x[1] <= x[2]} }

\* decimal_point + delete_extra_space + graph_fractional
graph_point_fractional(w) ==
    UNION { LET ps == decimal_point(Pre(w, i))
            IN  IF ps = {} THEN {}
                ELSE UNION { LET ss == delete_extra_space(Mid(w, i, j))
                             IN  IF ss = {} THEN {}
                                 ELSE {p \o s \o f
                                         : p \in ps, s \in ss,
                                           f \in graph_fractional(Suf(w, j))}
                           : j \in i..Len(w) }
          : i \in 0..Len(w) }

\* the bug of an optional separator word: the fraction may follow the
\* integer directly
final_graph_wo_sign_optional_point(w) ==
    UNION { LET cs == optional_graph_integer(Pre(w, i))
            IN  IF cs = {} THEN {}
                ELSE {c \o f : c \in cs,
                               f \in graph_point_fractional(Suf(w, i))
                                       \cup graph_fractional(Suf(w, i))}
          : i \in 0..Len(w) }

final_graph_wo_sign(w) ==
    UNION { LET fs == graph_point_fractional(Suf(w, i))
            IN  IF fs = {} THEN {}
                ELSE {c \o f : c \in optional_graph_integer(Pre(w, i)), f \in fs}
          : i \in 0..Len(w) }

--------------------------------------------------------------------------
(* get_quantity(decimal, cardinal_up_to_hundred), with the arguments both  *)
(* of its calls pass: decimal = final_graph_wo_sign, cardinal_up_to_hundred *)
(* = cardinal.graph_hundred_component_at_least_one_none_zero_digit         *)

\* the bug of accepting, not deleting, the leading "0" characters
magnitude_filter_keeps_zeros(ds) ==
    IF /\ \E i \in 1..Len(ds) : ds[i] # "0"
       /\ \A i \in 1..Len(ds) : ds[i] \in NEMO_DIGIT
    THEN {ds} ELSE {}

\* pynutil.delete(pynini.closure("0")) + pynini.difference(NEMO_DIGIT, "0")
\*   + pynini.closure(NEMO_DIGIT), applied to the digit string ds
magnitude_filter(ds) ==
    { Suf(ds, k) : k \in { j \in 0..Len(ds) :
          /\ \A i \in 1..j : ds[i] = "0"
          /\ j < Len(ds)
          /\ ds[j + 1] \in NEMO_DIGIT \ {"0"}
          /\ \A i \in (j + 2)..Len(ds) : ds[i] \in NEMO_DIGIT } }

\* numbers = cardinal_up_to_hundred @ (...)
numbers(w) ==
    UNION { magnitude_filter(ds)
          : ds \in graph_hundred_component_at_least_one_none_zero_digit(w) }

\* the bug of "thousand" among the scale words of both paths
suffix_with_thousand ==
    {"millón", "millones", "millardo", "millardos", "billón", "billones",
     "trillón", "trillones", "cuatrillón", "cuatrillones", "thousand"}

suffix ==
    {"millón", "millones", "millardo", "millardos", "billón", "billones",
     "trillón", "trillones", "cuatrillón", "cuatrillones"}

\* res = insert("integer_part: \"") + numbers + insert("\"")
\*       + delete_extra_space + insert("quantity: \"") + suffix + insert("\"")
quantity_cardinal(w) ==
    UNION { LET qs == Accept(suffix, Suf(w, j))
            IN  IF qs = {} THEN {}
                ELSE UNION { LET ss == delete_extra_space(Mid(w, i, j))
                             IN  IF ss = {} THEN {}
                                 ELSE { <<"integer_part: \"">> \o n \o <<"\"">> \o s
                                          \o <<"quantity: \"">> \o q \o <<"\"">>
                                        : n \in numbers(Pre(w, i)),
                                          s \in ss, q \in qs }
                           : i \in 0..j }
          : j \in 0..Len(w) }

\* decimal + delete_extra_space + insert("quantity: \"")
\*   + (suffix | "thousand") + insert("\"")
quantity_decimal(w) ==
    UNION { LET qs == Accept(suffix \cup {"thousand"}, Suf(w, j))
            IN  IF qs = {} THEN {}
                ELSE UNION { LET ss == delete_extra_space(Mid(w, i, j))
                             IN  IF ss = {} THEN {}
                                 ELSE { d \o s \o <<"quantity: \"">> \o q \o <<"\"">>
                                        : d \in final_graph_wo_sign(Pre(w, i)),
                                          s \in ss, q \in qs }
                           : i \in 0..j }
          : j \in 0..Len(w) }

\* res |= ...; return res
get_quantity(w) == quantity_cardinal(w) \cup quantity_decimal(w)

--------------------------------------------------------------------------
(* DecimalFst.__init__: the exposed transducers *)

\* the bug of a variant without sign that leaves the quantity out
final_graph_wo_negative_no_quantity(w) == final_graph_wo_sign(w)

final_graph_wo_negative(w) == final_graph_wo_sign(w) \cup get_quantity(w)

\* optional_graph_negative + final_graph_wo_sign
graph_signed_decimal(w) ==
    UNION { LET ns == optional_graph_negative(Pre(w, i))
            IN  IF ns = {} THEN {}
                ELSE {n \o d : n \in ns, d \in final_graph_wo_sign(Suf(w, i))}
          : i \in 0..Len(w) }

\* the bug of a quantity branch without the optional negation
graph_unsigned_quantity(w) == get_quantity(w)

\* optional_graph_negative + get_quantity(final_graph_wo_sign, ...)
graph_signed_quantity(w) ==
    UNION { LET ns == optional_graph_negative(Pre(w, i))
            IN  IF ns = {} THEN {}
                ELSE {n \o q : n \in ns, q \in get_quantity(Suf(w, i))}
          : i \in 0..Len(w) }

\* final_graph = optional_graph_negative + final_graph_wo_sign
\* final_graph |= optional_graph_negative + get_quantity(...)
final_graph(w) == graph_signed_decimal(w) \cup graph_signed_quantity(w)

\* GraphFst.add_tokens: decimal { ... }
add_tokens(outs) == {<<"decimal { ">> \o o \o <<" }">> : o \in outs}

\* self.fst = self.add_tokens(final_graph).optimize()
fst(w) == add_tokens(final_graph(w))

--------------------------------------------------------------------------
(* The inputs the transducers are applied to. *)

\* a run of k whitespace characters
Spaces(k) == [i \in 1..k |-> " "]

\* two spoken parts, k whitespace characters between them
Join(a, b, k) ==
    IF a = <<>> THEN b ELSE IF b = <<>> THEN a ELSE a \o Spaces(k) \o b

\* the sequences of 1..n of the given words, k whitespace characters apart
RECURSIVE WordSequences(_, _, _)
WordSequences(words, n, k) ==
    IF n = 0 THEN {}
    ELSE {<<x>> : x \in words} \cup
         {Join(<<x>>, r, k) : x \in words, r \in WordSequences(words, n - 1, k)}

\* spoken whole numbers, and "cero"
IntegerPhrases(k) ==
    {<<"cero">>, <<"uno">>, <<"veinte">>, Join(<<"dos">>, <<"millones">>, k)}

\* spoken fractional parts: digit by digit, or as one whole number
FractionPhrases(words, k) ==
    WordSequences(words, MaxDigits, k) \cup
    {<<"veinte">>, Join(<<"dos">>, <<"millones">>, k)}

ScaleWords == suffix \cup {"thousand", "mil"}

\* [menos] [integer] [coma | punto] [fraction] [scale word], every part
\* optional, the parts that are spoken k whitespace characters apart
Utterances ==
    UNION { { Join(n, Join(i, Join(p, Join(f, q, k), k), k), k)
              : n \in {<<>>, <<"menos">>},
                i \in {<<>>} \cup IntegerPhrases(k),
                p \in {<<>>, <<"coma">>, <<"punto">>},
                f \in {<<>>} \cup FractionPhrases({"cero", "dos"}, k),
                q \in {<<>>, <<"millón">>, <<"millones">>, <<"thousand">>} }
          : k \in 0..MaxSpaces }

\* the inputs of self.graph: fractional parts, with and without a trailing
\* whitespace character
FractionInputs ==
    UNION { { f \o t : f \in FractionPhrases({"cero", "uno", "dos"}, k),
                       t \in {<<>>, <<" ">>} }
          : k \in 0..MaxSpaces }

\* the inputs of get_quantity: a whole number or a decimal, then a word
QuantityInputs ==
    UNION { { Join(Join(i, Join(p, f, k), k), <<q>>, k)
              : i \in {<<>>, <<"cero">>, <<"uno">>, <<"veinte">>},
                p \in {<<>>, <<"coma">>},
                f \in {<<>>, <<"dos">>},
                q \in ScaleWords }
          : k \in 0..MaxSpaces }

\* the digit strings of up to three digits the magnitude filter is applied to
DigitStrings ==
    UNION { [1..n -> {"0", "1", "2"}] : n \in 0..3 }

--------------------------------------------------------------------------
(* Applying the transducers. *)

VARIABLES
    graph,   \* the transducer last applied, "idle" before
    inp,     \* the input it was applied to
    res,     \* the records it emitted, before token wrapping
    tokens   \* the tokens self.fst emitted

vars == <<graph, inp, res, tokens>>

Init == graph = "idle" /\ inp = <<>> /\ res = {} /\ tokens = {}

\* self.fst applied to w
Classify(w) ==
    /\ graph = "idle"
    /\ graph' = "fst"
    /\ inp' = w
    /\ res' = final_graph(w)
    /\ tokens' = fst(w)

\* self.final_graph_wo_negative applied to w
ClassifyWoNegative(w) ==
    /\ graph = "idle"
    /\ graph' = "final_graph_wo_negative"
    /\ inp' = w
    /\ res' = final_graph_wo_negative(w)
    /\ tokens' = {}

\* self.graph applied to w
ApplyGraph(w) ==
    /\ graph = "idle"
    /\ graph' = "graph"
    /\ inp' = w
    /\ res' = graph_decimal(w)
    /\ tokens' = {}

\* get_quantity(final_graph_wo_sign, ...) applied to w
GetQuantity(w) ==
    /\ graph = "idle"
    /\ graph' = "get_quantity"
    /\ inp' = w
    /\ res' = get_quantity(w)
    /\ tokens' = {}

\* the magnitude filter of get_quantity applied to the digit string ds
FilterMagnitude(ds) ==
    /\ graph = "idle"
    /\ graph' = "magnitude_filter"
    /\ inp' = ds
    /\ res' = magnitude_filter(ds)
    /\ tokens' = {}

\* the result is handed back; the transducers keep no state
Return ==
    /\ graph # "idle"
    /\ graph' = "idle" /\ inp' = <<>> /\ res' = {} /\ tokens' = {}

Next ==
    \/ \E w \in Utterances : Classify(w)
    \/ \E w \in Utterances : ClassifyWoNegative(w)
    \/ Return

Spec == Init /\ [][Next]_vars

NextGraph ==
    \/ \E w \in FractionInputs : ApplyGraph(w)
    \/ Return

SpecGraph == Init /\ [][NextGraph]_vars

NextQuantity ==
    \/ \E w \in QuantityInputs : GetQuantity(w)
    \/ \E ds \in DigitStrings : FilterMagnitude(ds)
    \/ Return

SpecQuantity == Init /\ [][NextQuantity]_vars

--------------------------------------------------------------------------
(* Reading an emitted record. *)

\* the fields of a record, in their fixed order
FieldOrder ==
    <<"negative", "integer_part", "morphosyntactic_features",
      "fractional_part", "quantity">>

\* the field a fragment names, "" for a fragment that names none
KeyName(x) ==
    CASE x = "negative: " -> "negative"
      [] x = "integer_part: \"" -> "integer_part"
      [] x \in {"morphosyntactic_features: \",\"",
                "morphosyntactic_features: \".\""} -> "morphosyntactic_features"
      [] x = "fractional_part: \"" -> "fractional_part"
      [] x = "quantity: \"" -> "quantity"
      [] OTHER -> ""

\* the place of a fragment in the field order, 0 for no field name
KeyRank(x) ==
    IF KeyName(x) = "" THEN 0
    ELSE CHOOSE i \in 1..Len(FieldOrder) : FieldOrder[i] = KeyName(x)

FieldAt(o, r) == {p \in 1..Len(o) : KeyName(o[p]) = r}

HasField(o, r) == FieldAt(o, r) # {}

\* the value of the quoted field r of o: what stands between its quotes
Value(o, r) ==
    LET p == CHOOSE x \in FieldAt(o, r) : TRUE
        e == CHOOSE x \in (p + 1)..Len(o) :
                 o[x] = "\"" /\ \A y \in (p + 1)..(x - 1) : o[y] # "\""
    IN  SubSeq(o, p + 1, e - 1)

\* the number of whitespace characters w starts with
RECURSIVE LeadingSpaces(_)
LeadingSpaces(w) ==
    IF w # <<>> /\ w[1] = " " THEN 1 + LeadingSpaces(Tail(w)) ELSE 0

\* the number of whitespace characters w ends with
RECURSIVE TrailingSpaces(_)
TrailingSpaces(w) ==
    IF w # <<>> /\ w[Len(w)] = " "
    THEN 1 + TrailingSpaces(Pre(w, Len(w) - 1)) ELSE 0

\* "menos", whitespace, and the rest
StartsWithNegation(w) ==
    Len(w) >= 2 /\ w[1] = "menos" /\ LeadingSpaces(Tail(w)) >= 1

AfterNegation(w) == Suf(w, 1 + LeadingSpaces(Tail(w)))

NegativeTag == <<"negative: ", "\"true\"", " ">>

--------------------------------------------------------------------------
(* Properties of the top-level transducer, final_graph before add_tokens.  *)

\* C1: a record of the top-level transducer has a morphosyntactic_features
\* field exactly when it has a fractional_part field, on the decimal path
\* and on both quantity paths.
C1_FeaturesIffFraction ==
    graph = "fst" =>
        \A o \in res : HasField(o, "morphosyntactic_features") <=> HasField(o, "fractional_part")

\* a decimal followed by a scale word was classified: both fields emitted
C1_Witness ==
    /\ graph = "fst"
    /\ \E o \in res : /\ HasField(o, "morphosyntactic_features") /\ HasField(o, "fractional_part")
                      /\ HasField(o, "quantity")

\* C2: every record of the top-level transducer has an integer_part or a
\* fractional_part field, and an input made only of the negation word,
\* separator words and scale words is rejected.
C2_IntegerOrFraction ==
    graph = "fst" =>
        /\ \A o \in res : HasField(o, "integer_part") \/ HasField(o, "fractional_part")
        /\ (\A i \in 1..Len(inp) :
                inp[i] \in {" ", "menos", "coma", "punto"} \cup suffix \cup {"thousand"})
            => res = {}

\* "menos coma millones" was classified, and rejected
C2_Witness ==
    /\ graph = "fst"
    /\ Words(inp) = <<"menos", "coma", "millones">>
    /\ Spoken(inp) /\ LeadingSpaces(Tail(inp)) = 1
    /\ res = {}

FieldsInOrder(o) ==
    \A p, q \in 1..Len(o) :
        (p < q /\ KeyRank(o[p]) > 0 /\ KeyRank(o[q]) > 0) => KeyRank(o[p]) < KeyRank(o[q])

\* o starts with a field, and exactly one space stands before every later
\* field and nowhere else
SingleSpaced(o) ==
    /\ o # <<>> /\ KeyRank(o[1]) > 0
    /\ \A p \in 2..Len(o) : KeyRank(o[p]) > 0 => o[p - 1] = " "
    /\ \A p \in 1..Len(o) : o[p] = " " => (p < Len(o) /\ KeyRank(o[p + 1]) > 0)

\* C6: in every record the fields stand in the order negative, integer_part,
\* morphosyntactic_features, fractional_part, quantity, each at most once,
\* separated by exactly one space whatever the whitespace of the input.
C6_FieldOrder ==
    graph = "fst" => \A o \in res : FieldsInOrder(o) /\ SingleSpaced(o)

\* a record with all five fields, from an input with runs of two spaces
C6_Witness ==
    /\ graph = "fst"
    /\ \E i \in 1..(Len(inp) - 1) : inp[i] = " " /\ inp[i + 1] = " "
    /\ \E o \in res : \A r \in 1..Len(FieldOrder) : HasField(o, FieldOrder[r])

\* C8: a record of an input whose separator word is "coma" has exactly one
\* morphosyntactic_features field, with the value ","; of one whose
\* separator word is "punto", exactly one with the value ".".
C8_SeparatorReproduced ==
    graph = "fst" =>
        \A o \in res :
            /\ Cardinality(FieldAt(o, "morphosyntactic_features")) <= 1
            /\ (\E i \in 1..Len(inp) : inp[i] = "coma") =>
                   \E p \in 1..Len(o) : o[p] = "morphosyntactic_features: \",\""
            /\ (\E i \in 1..Len(inp) : inp[i] = "punto") =>
                   \E p \in 1..Len(o) : o[p] = "morphosyntactic_features: \".\""

\* an input with "punto" was accepted
C8_Witness ==
    /\ graph = "fst"
    /\ \E i \in 1..Len(inp) : inp[i] = "punto"
    /\ \E o \in res : \E p \in 1..Len(o) : o[p] = "morphosyntactic_features: \".\""

\* C9: final_graph_wo_negative emits on an input exactly the records the
\* top-level transducer emits on it without a negative field, and rejects
\* an input that starts with the negation word.
C9_WithoutSign ==
    graph = "final_graph_wo_negative" =>
        /\ res = {o \in final_graph(inp) : ~HasField(o, "negative")}
        /\ (inp # <<>> /\ inp[1] = "menos") => res = {}

\* final_graph_wo_negative accepted a quantity
C9_Witness ==
    /\ graph = "final_graph_wo_negative"
    /\ \E o \in res : HasField(o, "quantity")
    /\ \E o \in final_graph(inp) : ~HasField(o, "negative")

\* C10: the top-level transducer emits at most one record on an input.
C10_Functional == graph = "fst" => Cardinality(res) <= 1

--------------------------------------------------------------------------
(* Properties of get_quantity. *)

\* ds without its leading "0" characters
RECURSIVE StripLeadingZeros(_)
StripLeadingZeros(ds) ==
    IF ds # <<>> /\ ds[1] = "0" THEN StripLeadingZeros(Tail(ds)) ELSE ds

\* C4: on the bare-cardinal path of get_quantity (the records without a
\* separator) the emitted integer_part is non-empty and begins with a digit
\* 1-9; the magnitude filter rejects a digit string of "0" characters only
\* and emits any other without its leading "0" characters.
C4_MagnitudeFilter ==
    /\ graph = "get_quantity" =>
           \A o \in res : ~HasField(o, "morphosyntactic_features") =>
               /\ Value(o, "integer_part") # <<>>
               /\ Value(o, "integer_part")[1] \in {"1", "2", "3", "4", "5", "6", "7", "8", "9"}
    /\ graph = "magnitude_filter" =>
           res = IF \A i \in 1..Len(inp) : inp[i] = "0"
                 THEN {} ELSE {StripLeadingZeros(inp)}

\* "veinte millones": the cardinal's 020 was emitted as 20
C4_Witness ==
    /\ graph = "get_quantity"
    /\ Words(inp) = <<"veinte", "millones">>
    /\ \E o \in res : Value(o, "integer_part") = <<"2", "0">>

LargeScaleWords ==
    {"millón", "millones", "millardo", "millardos", "billón", "billones",
     "trillón", "trillones", "cuatrillón", "cuatrillones"}

\* the last word of w, the whitespace before it, and what precedes them
LastWord(w) == w[Len(w)]

GapBeforeLast(w) == TrailingSpaces(Pre(w, Len(w) - 1))

BeforeLast(w) == Pre(w, Len(w) - 1 - GapBeforeLast(w))

\* C5: get_quantity accepts a bare cardinal followed by a word exactly when
\* the word is one of the ten large-scale words, and a decimal followed by
\* a word exactly when it is one of the ten or "thousand"; the emitted
\* quantity is the word.
C5_ScaleWords ==
    (graph = "get_quantity" /\ inp # <<>>) =>
        /\ (\E o \in res : ~HasField(o, "morphosyntactic_features")) <=>
               /\ numbers(BeforeLast(inp)) # {}
               /\ GapBeforeLast(inp) >= 1
               /\ LastWord(inp) \in LargeScaleWords
        /\ (\E o \in res : HasField(o, "morphosyntactic_features")) <=>
               /\ final_graph_wo_sign(BeforeLast(inp)) # {}
               /\ GapBeforeLast(inp) >= 1
               /\ LastWord(inp) \in LargeScaleWords \cup {"thousand"}
        /\ \A o \in res : Value(o, "quantity") = <<LastWord(inp)>>

\* a decimal followed by "thousand" was accepted
C5_Witness ==
    /\ graph = "get_quantity"
    /\ inp # <<>> /\ LastWord(inp) = "thousand"
    /\ \E o \in res : HasField(o, "morphosyntactic_features") /\ Value(o, "quantity") = <<"thousand">>

--------------------------------------------------------------------------
(* Properties of the fractional digit sequence, self.graph. *)

\* n >= 1 digit words, one space between them
SingleSpacedDigitWords(w) ==
    /\ Len(w) % 2 = 1
    /\ \A i \in 1..Len(w) :
           IF i % 2 = 1 THEN w[i] \in DOMAIN DigitTable \cup DOMAIN ZeroTable
           ELSE w[i] = " "

\* the digit characters of a sequence of digit words
RECURSIVE DigitsOf(_)
DigitsOf(ws) ==
    IF ws = <<>> THEN <<>>
    ELSE (DigitTable @@ ZeroTable)[ws[1]] \o DigitsOf(Tail(ws))

\* C7: on n >= 1 digit words separated by single spaces the digit sequence
\* builder, and self.graph with it, emits exactly the n digit characters.
C7_DigitSequence ==
    (graph = "graph" /\ SingleSpacedDigitWords(inp)) =>
        /\ res = {DigitsOf(Words(inp))}
        /\ graph_digit_sequence(inp) = res

\* three digit words were given
C7_Witness ==
    /\ graph = "graph"
    /\ SingleSpacedDigitWords(inp) /\ Len(inp) = 5
    /\ res = {DigitsOf(Words(inp))}

====
